---- MODULE Spec2Model ----
(***************************************************************************)
(* Hotel inventory ledger and booking life cycle (app/graphql/mutations).  *)
(*                                                                         *)
(* The store is MongoDB: every awaited collection call is one atomic       *)
(* step, and the code a handler runs between two awaits runs with it.      *)
(* Handlers of different requests interleave at their awaits.              *)
(***************************************************************************)
EXTENDS Integers, Sequences, FiniteSets, Bags, TLC

(* ------------------------------ bounds -------------------------------- *)
\* days seeded per created room (range(365) in the source)
SeedDays == 2
\* largest number_of_rooms a request asks for in one room-type group
MaxRooms == 2
\* requests issued in one behaviour
MaxCalls == 2
\* seconds the wall clock advances (booking_number has second precision)
MaxClock == 1

Hotels == {"h1"}
RoomTypes == {"deluxe", "suite"}
\* the rooms the store can hold, and those the booking handlers are given
RoomIds == {"r1", "r2", "r3"}
RoomNumbers == {"r1", "r2"}
Slots == {1, 2}
Today == 1
SeedDates == Today..(Today + SeedDays - 1)
Dates == Today..(Today + SeedDays)
Keys == Hotels \X RoomTypes \X Dates

(* ------------------------------ documents ----------------------------- *)
NoRow ==
  [exists |-> FALSE, total_rooms |-> 0, available_rooms |-> 0,
   locked_rooms |-> 0, booked_rooms |-> 0]

NoRoom ==
  [exists |-> FALSE, hotel_id |-> "", room_type |-> "", status |-> "",
   price_per_night |-> 0, is_active |-> FALSE]

NoSummary == [present |-> FALSE, groups |-> <<>>]

NoBooking ==
  [hotel_id |-> "", room_type_bookings |-> <<>>, room_type_summary |-> NoSummary,
   booking_number |-> -1, booking_status |-> "", check_in_date |-> 0,
   check_out_date |-> 0, room_ids |-> <<>>, base_amount |-> 0, tax_amount |-> 0,
   total_amount |-> 0, payment_status |-> "", payments |-> <<>>,
   room_charges |-> <<>>]

VARIABLES
  roomInventory,  \* db.roomInventory: (hotel_id, room_type, date) -> row
  rooms,          \* db.rooms: room id -> document
  bookings,       \* db.bookings: sequence of documents, _id = position
  hotels,         \* db.hotels: hotel id -> document
  calls,          \* the requests in progress, one per slot
  lastCall,       \* the request that returned in the last step, if any
  now,            \* datetime.utcnow() to the second
  started,        \* requests issued so far
  epoch,          \* history: per row, what reservations took since its last credit
  released        \* history: the bag of release updates cancel_booking has issued

vars ==
  <<roomInventory, rooms, bookings, hotels, calls, lastCall, now, started,
    epoch, released>>

hist == <<epoch, released>>

db == <<roomInventory, rooms, bookings, hotels>>

(* ------------------------------ requests ------------------------------ *)
Idle ==
  [op |-> "idle", pc |-> "idle", arg |-> <<>>, bk |-> NoBooking, gi |-> 0,
   day |-> 0, acc |-> <<>>, bn |-> -1, total_base |-> 0, result |-> "none",
   err |-> "", pre |-> <<>>, alone |-> TRUE]

Running(c) == calls[c].op # "idle"

Snapshot ==
  [roomInventory |-> roomInventory, rooms |-> rooms, bookings |-> bookings,
   hotels |-> hotels]

\* A request arrives in slot c. It overlaps every request still in progress.
Begin(c, rec) ==
  /\ ~Running(c)
  /\ started < MaxCalls
  /\ started' = started + 1
  /\ calls' = [s \in Slots |->
                 IF s = c
                   THEN [rec EXCEPT !.pre = Snapshot,
                                    !.alone = \A o \in Slots : ~Running(o)]
                   ELSE IF Running(s) THEN [calls[s] EXCEPT !.alone = FALSE]
                   ELSE calls[s]]
  /\ lastCall' = Idle
  /\ UNCHANGED <<db, now, hist>>

\* The request in slot c goes on to its next await.
Continue(c, rec) ==
  /\ calls' = [calls EXCEPT ![c] = rec]
  /\ lastCall' = Idle
  /\ UNCHANGED <<now, started>>

\* The request in slot c returns: res is "ok", or "error" with the raise err.
Return(c, rec, res, err) ==
  /\ calls' = [calls EXCEPT ![c] = Idle]
  /\ lastCall' = [rec EXCEPT !.result = res, !.err = err, !.pc = "returned"]
  /\ UNCHANGED <<now, started>>

Key(hotel_id, room_type, date) == <<hotel_id, room_type, date>>

\* A row's epoch starts when the row is credited: k rooms are available then;
\* won counts the units reservations took since, lost the one-room reservations
\* that were refused since.
NewEpoch(row) == [k |-> row.available_rooms, won |-> 0, lost |-> 0]

Refused(k, n) ==
  IF n = 1 THEN [epoch EXCEPT ![k].lost = @ + 1] ELSE epoch

(* ------------------------------ create_booking ------------------------ *)
Groups == [room_type : RoomTypes, number_of_rooms : 1..MaxRooms, room_ids : {<<>>}]

\* the room-type groups of a request: none, one (which may name a room in its
\* room_ids), or a deluxe and a suite room
GroupLists ==
  {<<>>} \cup {<<g>> : g \in Groups} \cup
  {<<[room_type |-> "deluxe", number_of_rooms |-> 1, room_ids |-> <<"r1">>]>>} \cup
  {<<g1, g2>> : g1 \in {g \in Groups : g.room_type = "deluxe" /\ g.number_of_rooms = 1},
                g2 \in {g \in Groups : g.room_type = "suite" /\ g.number_of_rooms = 1}}

\* stays from today: of no night, of every seeded night, and one night longer
CheckOuts == {Today, Today + SeedDays, Today + SeedDays + 1}

BookingInputs ==
  {[hotel_id |-> h, check_in_date |-> Today, check_out_date |-> o,
    room_type_bookings |-> gl] :
     h \in Hotels, o \in CheckOuts, gl \in GroupLists}

\* requests as the schema admits them: number_of_rooms is any int and the two
\* dates are any datetimes, so a group may ask for no room or for fewer than
\* none, and the stay may end on or before the day it starts
AnyBookingInputs ==
  {[hotel_id |-> h, check_in_date |-> Today, check_out_date |-> o,
    room_type_bookings |->
      <<[room_type |-> "deluxe", number_of_rooms |-> n, room_ids |-> <<>>]>>] :
     h \in Hotels, o \in {Today - 1, Today, Today + 1}, n \in -1..1}

\* a night short: range(nights - 1)
Nights_Short(check_in_date, check_out_date) == check_out_date - check_in_date - 1

\* the check-out date counted as a night: range(nights + 1)
Nights_Inclusive(check_in_date, check_out_date) == check_out_date - check_in_date + 1

\* nights = (check_out_date - check_in_date).days
Nights(check_in_date, check_out_date) == check_out_date - check_in_date

\* room_inventory["available_rooms"] < number_of_rooms, on the row read before
NotEnough(row, n) == row.available_rooms < n

\* the update without its filter on available_rooms
ReserveGuard_None(row, n) == TRUE

\* the filter "available_rooms": {"$gte": number_of_rooms}
ReserveGuard(row, n) == row.available_rooms >= n

\* the decrement without the matching increment of locked_rooms
ReserveInc_NoLock(row, n) == [row EXCEPT !.available_rooms = @ - n]

\* "$inc": {"available_rooms": -n, "locked_rooms": n}
ReserveInc(row, n) ==
  [row EXCEPT !.available_rooms = @ - n, !.locked_rooms = @ + n]

\* booking_number = "BK" + utcnow() to the second
BookingNumber(t) == t

\* price_per_night of a deluxe room, in tenths of the currency unit; a suite
\* costs twice as much
PricePerNight == 10

PriceOf(room_type) == IF room_type = "suite" THEN 2 * PricePerNight ELSE PricePerNight

\* sum(p["amount"] for p in ...), and the same sum over the groups of a request
RECURSIVE SumOf(_)
SumOf(amounts) ==
  IF amounts = <<>> THEN 0 ELSE Head(amounts) + SumOf(Tail(amounts))

\* the price of one night for each room, the nights of the stay forgotten
BaseAmount_PerStay(price_per_night, nights, number_of_rooms) ==
  price_per_night * number_of_rooms

\* base_amount = price_per_night * nights * number_of_rooms
BaseAmount(price_per_night, nights, number_of_rooms) ==
  price_per_night * nights * number_of_rooms

\* tax_amount = total_base * 0.1
TaxAmount(total_base) == total_base \div 10

\* total_amount = total_base + tax_amount
TotalAmount(total_base) == total_base + TaxAmount(total_base)

\* total_amount of the stored booking: one room for the seeded nights, with tax
StoredTotal == PricePerNight * SeedDays + ((PricePerNight * SeedDays) \div 10)

\* a booking stored as PENDING, to be confirmed later
CreatedStatus_Pending == "pending"

\* "booking_status": BookingStatus.CONFIRMED.value
CreatedStatus == "confirmed"

\* the document create_booking inserts
NewBooking(in, bn, total_base) ==
  [hotel_id |-> in.hotel_id,
   room_type_bookings |->
     [k \in 1..Len(in.room_type_bookings) |->
        [room_type |-> in.room_type_bookings[k].room_type,
         number_of_rooms |-> in.room_type_bookings[k].number_of_rooms,
         room_ids |-> in.room_type_bookings[k].room_ids]],
   room_type_summary |-> NoSummary,
   booking_number |-> bn,
   booking_status |-> CreatedStatus,
   check_in_date |-> in.check_in_date,
   check_out_date |-> in.check_out_date,
   room_ids |-> <<>>,
   base_amount |-> total_base,
   tax_amount |-> TaxAmount(total_base),
   total_amount |-> TotalAmount(total_base),
   payment_status |-> "pending",
   payments |-> <<>>,
   room_charges |-> <<>>]

\* where create_booking awaits next once group gi is entered
CreateEnter(rec, gi) ==
  IF gi > Len(rec.arg.room_type_bookings)
    THEN [rec EXCEPT !.pc = "insert", !.gi = gi, !.bn = BookingNumber(now)]
  ELSE IF Nights(rec.arg.check_in_date, rec.arg.check_out_date) <= 0
    THEN [rec EXCEPT !.pc = "price", !.gi = gi]
  ELSE [rec EXCEPT !.pc = "find", !.gi = gi, !.day = 0]

create_booking(c, in) ==
  Begin(c, CreateEnter([Idle EXCEPT !.op = "create_booking", !.arg = in], 1))

\* db.roomInventory.find_one and the two checks on what it returned
CreateFind(c) ==
  LET rec == calls[c]
      g == rec.arg.room_type_bookings[rec.gi]
      k == Key(rec.arg.hotel_id, g.room_type, rec.arg.check_in_date + rec.day)
      row == roomInventory[k]
  IN  /\ rec.op = "create_booking" /\ rec.pc = "find"
      /\ IF ~row.exists
           THEN /\ Return(c, rec, "error", "inventory_not_configured")
                /\ UNCHANGED epoch
         ELSE IF NotEnough(row, g.number_of_rooms)
           THEN /\ Return(c, rec, "error", "not_enough_rooms")
                /\ epoch' = Refused(k, g.number_of_rooms)
         ELSE /\ Continue(c, [rec EXCEPT !.pc = "lock"])
              /\ UNCHANGED epoch
      /\ UNCHANGED <<db, released>>

\* db.roomInventory.update_one with the $gte filter, and modified_count
CreateLock(c) ==
  LET rec == calls[c]
      g == rec.arg.room_type_bookings[rec.gi]
      k == Key(rec.arg.hotel_id, g.room_type, rec.arg.check_in_date + rec.day)
      row == roomInventory[k]
  IN  /\ rec.op = "create_booking" /\ rec.pc = "lock"
      /\ IF row.exists /\ ReserveGuard(row, g.number_of_rooms)
           THEN /\ roomInventory' =
                     [roomInventory EXCEPT ![k] = ReserveInc(row, g.number_of_rooms)]
                /\ epoch' = [epoch EXCEPT ![k].won = @ + g.number_of_rooms]
                /\ IF rec.day + 1 < Nights(rec.arg.check_in_date, rec.arg.check_out_date)
                     THEN Continue(c, [rec EXCEPT !.pc = "find", !.day = @ + 1])
                     ELSE Continue(c, [rec EXCEPT !.pc = "price"])
           ELSE /\ Return(c, rec, "error", "failed_to_lock")
                /\ epoch' = IF row.exists THEN Refused(k, g.number_of_rooms) ELSE epoch
                /\ UNCHANGED roomInventory
      /\ UNCHANGED <<rooms, bookings, hotels, released>>

\* db.rooms.find_one({hotel_id, room_type}) for the price: any room of the
\* type may be the one returned; its price goes into total_base
CreatePrice(c) ==
  LET rec == calls[c]
      g == rec.arg.room_type_bookings[rec.gi]
      priced == {r \in RoomIds : /\ rooms[r].exists
                                 /\ rooms[r].hotel_id = rec.arg.hotel_id
                                 /\ rooms[r].room_type = g.room_type}
  IN  /\ rec.op = "create_booking" /\ rec.pc = "price"
      /\ IF priced # {}
           THEN \E r \in priced :
                  Continue(c, CreateEnter(
                    [rec EXCEPT !.total_base =
                       @ + BaseAmount(rooms[r].price_per_night,
                                      Nights(rec.arg.check_in_date, rec.arg.check_out_date),
                                      g.number_of_rooms)],
                    rec.gi + 1))
           ELSE Return(c, rec, "error", "pricing_not_configured")
      /\ UNCHANGED <<db, hist>>

\* the collection without the unique index
NumberTaken_NoIndex(bn) == FALSE

\* IndexModel([("booking_number", ASCENDING)], unique=True): the insert of a
\* document whose booking_number is stored already is refused
NumberTaken(bn) == \E b \in 1..Len(bookings) : bookings[b].booking_number = bn

\* db.bookings.insert_one under the unique index on booking_number
CreateInsert(c) ==
  LET rec == calls[c]
  IN  /\ rec.op = "create_booking" /\ rec.pc = "insert"
      /\ IF NumberTaken(rec.bn)
           THEN /\ Return(c, rec, "error", "duplicate_booking_number")
                /\ UNCHANGED bookings
           ELSE /\ bookings' = Append(bookings, NewBooking(rec.arg, rec.bn, rec.total_base))
                /\ Return(c, rec, "ok", "")
      /\ UNCHANGED <<roomInventory, rooms, hotels, hist>>

\* the wall clock passes a second boundary
Tick ==
  /\ now < MaxClock
  /\ now' = now + 1
  /\ lastCall' = Idle
  /\ UNCHANGED <<db, calls, started, hist>>

(* ------------------------------ cancel_booking ------------------------ *)
BookingIds == 0..Len(bookings)

Found(bid) == bid \in 1..Len(bookings)

\* no status check at all
CancelAllowed_Any(status) == TRUE

\* a cancellation that only a CONFIRMED booking is allowed
CancelAllowed_ConfirmedOnly(status) == status = "confirmed"

\* booking_status in [CONFIRMED, CHECKED_IN]
CancelAllowed(status) == status \in {"confirmed", "checked_in"}

\* the release that takes from booked_rooms whatever the status read
ReleaseInc_Booked(row, n, status) ==
  [row EXCEPT !.booked_rooms = @ - n, !.available_rooms = @ + n]

\* the release that takes from locked_rooms whatever the status read
ReleaseInc_Locked(row, n, status) ==
  [row EXCEPT !.locked_rooms = @ - n, !.available_rooms = @ + n]

\* the release without the credit to available_rooms
ReleaseInc_NoCredit(row, n, status) ==
  IF status = "confirmed"
    THEN [row EXCEPT !.locked_rooms = @ - n]
    ELSE [row EXCEPT !.booked_rooms = @ - n]

\* the release that credits available_rooms and leaves the counter it came from
ReleaseInc_CreditOnly(row, n, status) == [row EXCEPT !.available_rooms = @ + n]

\* the "$inc" cancel_booking applies to a night's row, chosen by the status read
ReleaseInc(row, n, status) ==
  IF status = "confirmed"
    THEN [row EXCEPT !.locked_rooms = @ - n, !.available_rooms = @ + n]
    ELSE [row EXCEPT !.booked_rooms = @ - n, !.available_rooms = @ + n]

\* db.rooms.update_many({"_id": {"$in": ids}}, {"$set": {"status": status}})
SetStatus(ids, status) ==
  [r \in RoomIds |->
     IF rooms[r].exists /\ \E k \in 1..Len(ids) : ids[k] = r
       THEN [rooms[r] EXCEPT !.status = status]
       ELSE rooms[r]]

\* where cancel_booking awaits next once the release loop is done
CancelAfterRelease(rec) ==
  IF Len(rec.bk.room_ids) > 0 THEN [rec EXCEPT !.pc = "rooms"]
  ELSE [rec EXCEPT !.pc = "status"]

cancel_booking(c, bid) ==
  /\ bid \in BookingIds
  /\ Begin(c, [Idle EXCEPT !.op = "cancel_booking", !.arg = [booking_id |-> bid],
                           !.pc = "fetch"])

\* db.bookings.find_one and the status check
CancelFetch(c) ==
  LET rec == calls[c]
      bid == rec.arg.booking_id
  IN  /\ rec.op = "cancel_booking" /\ rec.pc = "fetch"
      /\ IF ~Found(bid)
           THEN Return(c, rec, "error", "booking_not_found")
         ELSE IF ~CancelAllowed(bookings[bid].booking_status)
           THEN Return(c, [rec EXCEPT !.bk = bookings[bid]], "error", "not_cancellable")
         ELSE LET got == [rec EXCEPT !.bk = bookings[bid]]
              IN  IF /\ Nights(got.bk.check_in_date, got.bk.check_out_date) > 0
                     /\ Len(got.bk.room_type_bookings) > 0
                    THEN Continue(c, [got EXCEPT !.pc = "release", !.day = 0, !.gi = 1])
                    ELSE Continue(c, CancelAfterRelease(got))
      /\ UNCHANGED <<db, hist>>

\* db.roomInventory.update_one(update_query, update_ops): no guard on the counters
CancelRelease(c) ==
  LET rec == calls[c]
      g == rec.bk.room_type_bookings[rec.gi]
      k == Key(rec.bk.hotel_id, g.room_type, rec.bk.check_in_date + rec.day)
      row == roomInventory[k]
  IN  /\ rec.op = "cancel_booking" /\ rec.pc = "release"
      /\ IF k \in Keys /\ row.exists
           THEN LET new == ReleaseInc(row, g.number_of_rooms, rec.bk.booking_status)
                IN  /\ roomInventory' = [roomInventory EXCEPT ![k] = new]
                    /\ epoch' = [epoch EXCEPT ![k] = NewEpoch(new)]
           ELSE UNCHANGED <<roomInventory, epoch>>
      /\ released' = released (+) SetToBag({<<rec.arg.booking_id, rec.gi, rec.day>>})
      /\ IF rec.gi < Len(rec.bk.room_type_bookings)
           THEN Continue(c, [rec EXCEPT !.gi = @ + 1])
         ELSE IF rec.day + 1 < Nights(rec.bk.check_in_date, rec.bk.check_out_date)
           THEN Continue(c, [rec EXCEPT !.day = @ + 1, !.gi = 1])
         ELSE Continue(c, CancelAfterRelease(rec))
      /\ UNCHANGED <<rooms, bookings, hotels>>

\* db.rooms.update_many: the assigned rooms become available
CancelRooms(c) ==
  LET rec == calls[c]
  IN  /\ rec.op = "cancel_booking" /\ rec.pc = "rooms"
      /\ rooms' = SetStatus(rec.bk.room_ids, "available")
      /\ Continue(c, [rec EXCEPT !.pc = "status"])
      /\ UNCHANGED <<roomInventory, bookings, hotels, hist>>

\* db.bookings.update_one: booking_status = CANCELLED
CancelStatus(c) ==
  LET rec == calls[c]
  IN  /\ rec.op = "cancel_booking" /\ rec.pc = "status"
      /\ bookings' = [bookings EXCEPT ![rec.arg.booking_id].booking_status = "cancelled"]
      /\ Return(c, rec, "ok", "")
      /\ UNCHANGED <<roomInventory, rooms, hotels, hist>>

(* ------------------------------ checkout_booking ---------------------- *)
\* no status check at all
CheckoutAllowed_Any(status) == TRUE

\* booking_status == CHECKED_IN
CheckoutAllowed(status) == status = "checked_in"

checkout_booking(c, bid) ==
  /\ bid \in BookingIds
  /\ Begin(c, [Idle EXCEPT !.op = "checkout_booking", !.arg = [booking_id |-> bid],
                           !.pc = "fetch"])

\* db.bookings.find_one and the status check
CheckoutFetch(c) ==
  LET rec == calls[c]
      bid == rec.arg.booking_id
  IN  /\ rec.op = "checkout_booking" /\ rec.pc = "fetch"
      /\ IF ~Found(bid)
           THEN Return(c, rec, "error", "booking_not_found")
         ELSE IF ~CheckoutAllowed(bookings[bid].booking_status)
           THEN Return(c, [rec EXCEPT !.bk = bookings[bid]], "error", "not_checked_in")
         ELSE Continue(c, CancelAfterRelease([rec EXCEPT !.bk = bookings[bid]]))
      /\ UNCHANGED <<db, hist>>

\* db.rooms.update_many: the assigned rooms become available
CheckoutRooms(c) ==
  LET rec == calls[c]
  IN  /\ rec.op = "checkout_booking" /\ rec.pc = "rooms"
      /\ rooms' = SetStatus(rec.bk.room_ids, "available")
      /\ Continue(c, [rec EXCEPT !.pc = "status"])
      /\ UNCHANGED <<roomInventory, bookings, hotels, hist>>

\* db.bookings.update_one: booking_status = CHECKED_OUT
CheckoutStatus(c) ==
  LET rec == calls[c]
  IN  /\ rec.op = "checkout_booking" /\ rec.pc = "status"
      /\ bookings' = [bookings EXCEPT ![rec.arg.booking_id].booking_status = "checked_out"]
      /\ Return(c, rec, "ok", "")
      /\ UNCHANGED <<roomInventory, rooms, hotels, hist>>

(* ------------------------------ assign_rooms_to_booking --------------- *)
IdLists == {<<r>> : r \in RoomNumbers} \cup {<<"r1", "r2">>}

Assignments == [room_type : RoomTypes, room_ids : IdLists]

\* the assignments of a request: none, one group, or a deluxe group followed by
\* a suite group
AssignmentLists ==
  {<<>>} \cup {<<a>> : a \in Assignments} \cup
  {<<[room_type |-> "deluxe", room_ids |-> <<"r1">>],
     [room_type |-> "suite", room_ids |-> <<"r2">>]>>}

\* booking_status == CONFIRMED
AssignAllowed(status) == status = "confirmed"

\* next(s for s in booking["room_type_summary"] if s["room_type"] == room_type)
SummaryOf(bk, room_type) ==
  LET hits == {k \in 1..Len(bk.room_type_summary.groups) :
                 bk.room_type_summary.groups[k].room_type = room_type}
  IN  IF hits = {} THEN 0
      ELSE CHOOSE k \in hits : \A j \in hits : k <= j

\* the rooms db.rooms.find returns for one assignment
ValidRooms(hotel_id, a) ==
  {r \in RoomIds : /\ \E k \in 1..Len(a.room_ids) : a.room_ids[k] = r
                   /\ rooms[r].exists
                   /\ rooms[r].hotel_id = hotel_id
                   /\ rooms[r].room_type = a.room_type
                   /\ rooms[r].status = "available"}

\* a set of room ids as the list the cursor yields
RECURSIVE ListOf(_)
ListOf(S) ==
  IF S = {} THEN <<>>
  ELSE LET r == CHOOSE x \in S : \A y \in S : (x = "r1") \/ (y # "r1")
       IN  <<r>> \o ListOf(S \ {r})

\* the move without its filter on locked_rooms
ConfirmGuard_None(row, n) == TRUE

\* the filter "locked_rooms": {"$gte": len(room_ids)}
ConfirmGuard(row, n) == row.locked_rooms >= n

\* "$inc": {"locked_rooms": -n, "booked_rooms": n}
ConfirmInc(row, n) ==
  [row EXCEPT !.locked_rooms = @ - n, !.booked_rooms = @ + n]

\* the code between the awaits once assignment gi is entered: the count check
\* on booking["room_type_summary"], a key create_booking never writes
AssignEnter(c, rec, gi) ==
  IF gi > Len(rec.arg.assignments)
    THEN Continue(c, [rec EXCEPT !.pc = "occupy", !.gi = gi])
  ELSE IF ~rec.bk.room_type_summary.present
    THEN Return(c, rec, "error", "key_error_room_type_summary")
  ELSE LET a == rec.arg.assignments[gi]
           k == SummaryOf(rec.bk, a.room_type)
       IN  IF k = 0 \/ Len(a.room_ids) # rec.bk.room_type_summary.groups[k].number_of_rooms
             THEN Return(c, rec, "error", "room_count_mismatch")
             ELSE Continue(c, [rec EXCEPT !.pc = "rooms", !.gi = gi])

assign_rooms_to_booking(c, bid, as) ==
  /\ bid \in BookingIds
  /\ Begin(c, [Idle EXCEPT !.op = "assign_rooms_to_booking",
                           !.arg = [booking_id |-> bid, assignments |-> as],
                           !.pc = "fetch"])

\* db.bookings.find_one and the status check
AssignFetch(c) ==
  LET rec == calls[c]
      bid == rec.arg.booking_id
  IN  /\ rec.op = "assign_rooms_to_booking" /\ rec.pc = "fetch"
      /\ IF ~Found(bid)
           THEN Return(c, rec, "error", "booking_not_found")
         ELSE IF ~AssignAllowed(bookings[bid].booking_status)
           THEN Return(c, [rec EXCEPT !.bk = bookings[bid]], "error", "not_confirmed")
         ELSE AssignEnter(c, [rec EXCEPT !.bk = bookings[bid]], 1)
      /\ UNCHANGED <<db, hist>>

\* db.rooms.find(...).to_list and the check of how many rooms matched
AssignRooms(c) ==
  LET rec == calls[c]
      a == rec.arg.assignments[rec.gi]
      valid == ValidRooms(rec.bk.hotel_id, a)
      got == [rec EXCEPT !.acc = @ \o ListOf(valid)]
  IN  /\ rec.op = "assign_rooms_to_booking" /\ rec.pc = "rooms"
      /\ IF Cardinality(valid) # Len(a.room_ids)
           THEN Return(c, rec, "error", "invalid_or_unavailable_rooms")
         ELSE IF Nights(rec.bk.check_in_date, rec.bk.check_out_date) > 0
           THEN Continue(c, [got EXCEPT !.pc = "move", !.day = 0])
         ELSE AssignEnter(c, got, rec.gi + 1)
      /\ UNCHANGED <<db, hist>>

\* db.roomInventory.update_one with the $gte filter on locked_rooms
AssignMove(c) ==
  LET rec == calls[c]
      a == rec.arg.assignments[rec.gi]
      n == Len(a.room_ids)
      k == Key(rec.bk.hotel_id, a.room_type, rec.bk.check_in_date + rec.day)
      row == roomInventory[k]
  IN  /\ rec.op = "assign_rooms_to_booking" /\ rec.pc = "move"
      /\ IF k \in Keys /\ row.exists /\ ConfirmGuard(row, n)
           THEN /\ roomInventory' = [roomInventory EXCEPT ![k] = ConfirmInc(row, n)]
                /\ IF rec.day + 1 < Nights(rec.bk.check_in_date, rec.bk.check_out_date)
                     THEN Continue(c, [rec EXCEPT !.day = @ + 1])
                     ELSE AssignEnter(c, rec, rec.gi + 1)
           ELSE /\ Return(c, rec, "error", "inventory_update_failed")
                /\ UNCHANGED roomInventory
      /\ UNCHANGED <<rooms, bookings, hotels, hist>>

\* db.rooms.update_many: the validated rooms become occupied
AssignOccupy(c) ==
  LET rec == calls[c]
  IN  /\ rec.op = "assign_rooms_to_booking" /\ rec.pc = "occupy"
      /\ rooms' = SetStatus(rec.acc, "occupied")
      /\ Continue(c, [rec EXCEPT !.pc = "status"])
      /\ UNCHANGED <<roomInventory, bookings, hotels, hist>>

\* db.bookings.update_one: room_ids and booking_status = CHECKED_IN, then the
\* read of the document that is returned
AssignStatus(c) ==
  LET rec == calls[c]
  IN  /\ rec.op = "assign_rooms_to_booking" /\ rec.pc = "status"
      /\ bookings' = [bookings EXCEPT ![rec.arg.booking_id].booking_status = "checked_in",
                                      ![rec.arg.booking_id].room_ids = rec.acc]
      /\ Return(c, rec, "ok", "")
      /\ UNCHANGED <<roomInventory, rooms, hotels, hist>>

(* ------------------------------ create_room --------------------------- *)
RoomInputs ==
  {[hotel_id |-> h, room_number |-> r, room_type |-> t, floor |-> 1,
    price_per_night |-> PriceOf(t)] : h \in Hotels, r \in RoomNumbers, t \in RoomTypes}

\* the credit that raises total_rooms alone
SeedInc_TotalOnly(row, delta_total, delta_available) ==
  [row EXCEPT !.total_rooms = @ + delta_total]

\* every input of create_room: the hotel may be unknown and the floor may lie
\* above the hotel's floor_count
AnyRoomInputs ==
  {[hotel_id |-> h, room_number |-> r, room_type |-> t, floor |-> f,
    price_per_night |-> PriceOf(t)] :
     h \in Hotels \cup {"h0"}, r \in RoomIds, t \in RoomTypes, f \in {1, 2}}

\* "$inc": {"total_rooms": delta_total, "available_rooms": delta_available}
SeedInc(row, delta_total, delta_available) ==
  [row EXCEPT !.total_rooms = @ + delta_total, !.available_rooms = @ + delta_available]

\* the row upsert_room_inventory_for_date inserts when none matched
SeedRow(delta_total, delta_available) ==
  [exists |-> TRUE, total_rooms |-> delta_total, available_rooms |-> delta_available,
   locked_rooms |-> 0, booked_rooms |-> 0]

\* db.hotels.find_one({"_id": hotel_id}) returned a document
HotelFound(hotel_id) == hotel_id \in Hotels /\ hotels[hotel_id].exists

\* no check of the floor
FloorExceeds_Never(floor, floor_count) == FALSE

\* room_data.floor > hotel.get('floor_count', 0)
FloorExceeds(floor, floor_count) == floor > floor_count

create_room(c, in) ==
  Begin(c, [Idle EXCEPT !.op = "create_room", !.arg = in, !.pc = "find_hotel"])

\* db.hotels.find_one
RoomFindHotel(c) ==
  LET rec == calls[c]
  IN  /\ rec.op = "create_room" /\ rec.pc = "find_hotel"
      /\ IF ~HotelFound(rec.arg.hotel_id)
           THEN Return(c, rec, "error", "hotel_not_found")
           ELSE Continue(c, [rec EXCEPT !.pc = "find_room",
                                        !.bn = hotels[rec.arg.hotel_id].floor_count])
      /\ UNCHANGED <<db, hist>>

\* db.rooms.find_one on (hotel_id, room_number), then the floor check
RoomFindRoom(c) ==
  LET rec == calls[c]
  IN  /\ rec.op = "create_room" /\ rec.pc = "find_room"
      /\ IF rooms[rec.arg.room_number].exists
           THEN Return(c, rec, "error", "room_number_exists")
         ELSE IF FloorExceeds(rec.arg.floor, rec.bn)
           THEN Return(c, rec, "error", "floor_exceeds_floor_count")
         ELSE Continue(c, [rec EXCEPT !.pc = "insert_room"])
      /\ UNCHANGED <<db, hist>>

\* db.rooms.insert_one under the unique index on (hotel_id, room_number)
RoomInsert(c) ==
  LET rec == calls[c]
  IN  /\ rec.op = "create_room" /\ rec.pc = "insert_room"
      /\ IF rooms[rec.arg.room_number].exists
           THEN /\ Return(c, rec, "error", "duplicate_room_number")
                /\ UNCHANGED rooms
           ELSE /\ rooms' = [rooms EXCEPT ![rec.arg.room_number] =
                               [exists |-> TRUE, hotel_id |-> rec.arg.hotel_id,
                                room_type |-> rec.arg.room_type, status |-> "available",
                                price_per_night |-> rec.arg.price_per_night,
                                is_active |-> TRUE]]
                /\ Continue(c, [rec EXCEPT !.pc = "seed_update", !.day = 0])
      /\ UNCHANGED <<roomInventory, bookings, hotels, hist>>

\* where create_room awaits next once day rec.day is seeded
RoomSeeded(rec) ==
  IF rec.day + 1 < SeedDays
    THEN [rec EXCEPT !.pc = "seed_update", !.day = @ + 1]
    ELSE [rec EXCEPT !.pc = "hotel_update"]

\* upsert_room_inventory_for_date: db.roomInventory.update_one and matched_count
RoomSeedUpdate(c) ==
  LET rec == calls[c]
      k == Key(rec.arg.hotel_id, rec.arg.room_type, Today + rec.day)
      row == roomInventory[k]
  IN  /\ rec.op = "create_room" /\ rec.pc = "seed_update"
      /\ IF row.exists
           THEN /\ roomInventory' = [roomInventory EXCEPT ![k] = SeedInc(row, 1, 1)]
                /\ epoch' = [epoch EXCEPT ![k] = NewEpoch(SeedInc(row, 1, 1))]
                /\ Continue(c, RoomSeeded(rec))
           ELSE /\ UNCHANGED <<roomInventory, epoch>>
                /\ Continue(c, [rec EXCEPT !.pc = "seed_insert"])
      /\ UNCHANGED <<rooms, bookings, hotels, released>>

\* upsert_room_inventory_for_date: db.roomInventory.insert_one under the unique
\* index on (hotel_id, room_type, date); its error is printed and dropped
RoomSeedInsert(c) ==
  LET rec == calls[c]
      k == Key(rec.arg.hotel_id, rec.arg.room_type, Today + rec.day)
      row == roomInventory[k]
  IN  /\ rec.op = "create_room" /\ rec.pc = "seed_insert"
      /\ IF row.exists
           THEN UNCHANGED <<roomInventory, epoch>>
           ELSE /\ roomInventory' = [roomInventory EXCEPT ![k] = SeedRow(1, 1)]
                /\ epoch' = [epoch EXCEPT ![k] = NewEpoch(SeedRow(1, 1))]
      /\ Continue(c, RoomSeeded(rec))
      /\ UNCHANGED <<rooms, bookings, hotels, released>>

\* db.hotels.update_one: room_count + 1
RoomHotelUpdate(c) ==
  LET rec == calls[c]
  IN  /\ rec.op = "create_room" /\ rec.pc = "hotel_update"
      /\ hotels' = [hotels EXCEPT ![rec.arg.hotel_id].room_count = @ + 1]
      /\ Return(c, rec, "ok", "")
      /\ UNCHANGED <<roomInventory, rooms, bookings, hist>>

(* ------------------------------ delete_room --------------------------- *)
\* db.bookings.find_one({"room_id": id, "status": {"$in": [...]}}): a booking
\* document with a room_id equal to id and a status among the active ones
ActiveBooking(id) ==
  \E b \in 1..Len(bookings) :
    /\ "room_id" \in DOMAIN bookings[b] /\ "status" \in DOMAIN bookings[b]
    /\ bookings[b]["room_id"] = id
    /\ bookings[b]["status"] \in {"confirmed", "checked_in"}

\* the deletion that takes the room out of order and leaves it active
SoftDelete_StatusOnly(room) == [room EXCEPT !.status = "out_of_order"]

\* "$set": {"is_active": False, "status": OUT_OF_ORDER}
SoftDelete(room) == [room EXCEPT !.is_active = FALSE, !.status = "out_of_order"]

\* self.update_room_inventory(db, hotel_id, room_type, delta_total,
\* delta_available): the seed of the current date's row alone
UpdateRoomInventory(row, delta_total, delta_available) ==
  IF row.exists THEN SeedInc(row, delta_total, delta_available)
  ELSE SeedRow(delta_total, delta_available)

delete_room(c, id) ==
  Begin(c, [Idle EXCEPT !.op = "delete_room", !.arg = [id |-> id], !.pc = "find_room"])

\* db.rooms.find_one({"_id": id})
DeleteFind(c) ==
  LET rec == calls[c]
  IN  /\ rec.op = "delete_room" /\ rec.pc = "find_room"
      /\ IF ~rooms[rec.arg.id].exists
           THEN Return(c, rec, "error", "room_not_found")
           ELSE Continue(c, [rec EXCEPT !.pc = "find_active", !.bk = rooms[rec.arg.id]])
      /\ UNCHANGED <<db, hist>>

\* db.bookings.find_one for an active booking of the room
DeleteActive(c) ==
  LET rec == calls[c]
  IN  /\ rec.op = "delete_room" /\ rec.pc = "find_active"
      /\ IF ActiveBooking(rec.arg.id)
           THEN Return(c, rec, "error", "room_has_active_bookings")
           ELSE Continue(c, [rec EXCEPT !.pc = "soft_delete"])
      /\ UNCHANGED <<db, hist>>

\* db.rooms.update_one: the soft deletion
DeleteSet(c) ==
  LET rec == calls[c]
  IN  /\ rec.op = "delete_room" /\ rec.pc = "soft_delete"
      /\ rooms' = [rooms EXCEPT ![rec.arg.id] = SoftDelete(@)]
      /\ Continue(c, [rec EXCEPT !.pc = "hotel_update"])
      /\ UNCHANGED <<roomInventory, bookings, hotels, hist>>

\* db.hotels.update_one: room_count - 1
DeleteHotelUpdate(c) ==
  LET rec == calls[c]
  IN  /\ rec.op = "delete_room" /\ rec.pc = "hotel_update"
      /\ hotels' = [h \in Hotels |->
                      IF h = rec.bk.hotel_id /\ hotels[h].exists
                        THEN [hotels[h] EXCEPT !.room_count = @ - 1]
                        ELSE hotels[h]]
      /\ Continue(c, [rec EXCEPT !.pc = "inventory"])
      /\ UNCHANGED <<roomInventory, rooms, bookings, hist>>

\* self.update_room_inventory(-1, -1), then return result.modified_count > 0
DeleteInventory(c) ==
  LET rec == calls[c]
      k == Key(rec.bk.hotel_id, rec.bk.room_type, Today)
      new == UpdateRoomInventory(roomInventory[k], -1, -1)
  IN  /\ rec.op = "delete_room" /\ rec.pc = "inventory"
      /\ roomInventory' = [roomInventory EXCEPT ![k] = new]
      /\ epoch' = [epoch EXCEPT ![k] = NewEpoch(new)]
      /\ Return(c, rec, "ok", "")
      /\ UNCHANGED <<rooms, bookings, hotels, released>>

(* ------------------------------ add_payment, add_room_charge ---------- *)
\* amounts paid: nothing, one, the stored booking's total and one less
PayAmounts == {0, 1, StoredTotal - 1, StoredTotal}

ChargeAmounts == {1}

\* self._find_booking(db, booking_id): the booking with that id, 0 if none
FindBooking(bid) == IF Found(bid) THEN bid ELSE 0

\* PARTIAL from the first payment on, whatever the total
PaymentStatusOf_NeverPaid(total_paid, total_amount) ==
  IF total_paid > 0 THEN "partial" ELSE "pending"

\* the payment_status add_payment computes from total_paid and total_amount
PaymentStatusOf(total_paid, total_amount) ==
  IF total_paid >= total_amount THEN "paid"
  ELSE IF total_paid > 0 THEN "partial"
  ELSE "pending"

\* a charge on a booking in any status
ChargeAllowed_Any(status) == TRUE

\* booking_status == CHECKED_IN
ChargeAllowed(status) == status = "checked_in"

add_payment(c, bid, amount) ==
  /\ bid \in BookingIds
  /\ Begin(c, [Idle EXCEPT !.op = "add_payment",
                           !.arg = [booking_id |-> bid, amount |-> amount],
                           !.pc = "find"])

\* the lookup of the booking
PayFind(c) ==
  LET rec == calls[c]
      b == FindBooking(rec.arg.booking_id)
  IN  /\ rec.op = "add_payment" /\ rec.pc = "find"
      /\ IF b = 0
           THEN Return(c, rec, "error", "booking_not_found")
           ELSE Continue(c, [rec EXCEPT !.bk = bookings[b], !.pc = "update"])
      /\ UNCHANGED <<db, hist>>

\* the update that $sets payments to the new payment alone
PayUpdate_Set(c) ==
  LET rec == calls[c]
      b == rec.arg.booking_id
      total_paid == SumOf(rec.bk.payments) + rec.arg.amount
  IN  /\ rec.op = "add_payment" /\ rec.pc = "update"
      /\ bookings' =
           [bookings EXCEPT ![b].payments = <<rec.arg.amount>>,
                            ![b].payment_status =
                              PaymentStatusOf(total_paid, rec.bk.total_amount)]
      /\ Return(c, rec, "ok", "")
      /\ UNCHANGED <<roomInventory, rooms, hotels, hist>>

\* db.bookings.update_one: $push the payment and $set the payment_status computed
\* from the payments and the total_amount that were read; then the read of the
\* document that is returned
PayUpdate(c) ==
  LET rec == calls[c]
      b == rec.arg.booking_id
      total_paid == SumOf(rec.bk.payments) + rec.arg.amount
  IN  /\ rec.op = "add_payment" /\ rec.pc = "update"
      /\ bookings' =
           [bookings EXCEPT ![b].payments = Append(@, rec.arg.amount),
                            ![b].payment_status =
                              PaymentStatusOf(total_paid, rec.bk.total_amount)]
      /\ Return(c, rec, "ok", "")
      /\ UNCHANGED <<roomInventory, rooms, hotels, hist>>

add_room_charge(c, bid, amount) ==
  /\ bid \in BookingIds
  /\ Begin(c, [Idle EXCEPT !.op = "add_room_charge",
                           !.arg = [booking_id |-> bid, amount |-> amount],
                           !.pc = "find"])

\* the lookup of the booking and the status check
ChargeFind(c) ==
  LET rec == calls[c]
      b == FindBooking(rec.arg.booking_id)
  IN  /\ rec.op = "add_room_charge" /\ rec.pc = "find"
      /\ IF b = 0 \/ ~ChargeAllowed(bookings[b].booking_status)
           THEN Return(c, rec, "error", "active_booking_not_found")
           ELSE Continue(c, [rec EXCEPT !.bk = bookings[b], !.pc = "update"])
      /\ UNCHANGED <<db, hist>>

\* db.bookings.update_one: $push the charge and $inc total_amount; then the read
\* of the document that is returned
ChargeUpdate(c) ==
  LET rec == calls[c]
      b == rec.arg.booking_id
  IN  /\ rec.op = "add_room_charge" /\ rec.pc = "update"
      /\ bookings' =
           [bookings EXCEPT ![b].room_charges = Append(@, rec.arg.amount),
                            ![b].total_amount = @ + rec.arg.amount]
      /\ Return(c, rec, "ok", "")
      /\ UNCHANGED <<roomInventory, rooms, hotels, hist>>

(* ------------------------------ the system ---------------------------- *)
\* The store when the behaviour starts: room r1 (deluxe) was created and seeded,
\* and at most one booking of a deluxe room for the seeded nights is stored, in
\* one of the states the handlers leave a booking in. A stored document may
\* carry the room_type_summary that assign_rooms_to_booking reads; the documents
\* create_booking inserts carry none.
StoredGroups == <<[room_type |-> "deluxe", number_of_rooms |-> 1, room_ids |-> <<>>]>>

StoredBooking(status, summary, room_ids) ==
  [hotel_id |-> "h1",
   room_type_bookings |-> StoredGroups,
   room_type_summary |->
     IF summary
       THEN [present |-> TRUE,
             groups |-> <<[room_type |-> "deluxe", number_of_rooms |-> 1]>>]
       ELSE NoSummary,
   booking_number |-> -1,
   booking_status |-> status,
   check_in_date |-> Today,
   check_out_date |-> Today + SeedDays,
   room_ids |-> room_ids,
   base_amount |-> PricePerNight * SeedDays,
   tax_amount |-> (PricePerNight * SeedDays) \div 10,
   total_amount |-> StoredTotal,
   payment_status |-> "pending",
   payments |-> <<>>,
   room_charges |-> <<>>]

StoredRow(available, locked, booked) ==
  [exists |-> TRUE, total_rooms |-> 1, available_rooms |-> available,
   locked_rooms |-> locked, booked_rooms |-> booked]

Stores ==
  { [bookings |-> <<>>, row |-> StoredRow(1, 0, 0), r1 |-> "available"],
    [bookings |-> <<StoredBooking("confirmed", FALSE, <<>>)>>,
     row |-> StoredRow(0, 1, 0), r1 |-> "available"],
    [bookings |-> <<StoredBooking("confirmed", TRUE, <<>>)>>,
     row |-> StoredRow(0, 1, 0), r1 |-> "available"],
    [bookings |-> <<StoredBooking("checked_in", TRUE, <<"r1">>)>>,
     row |-> StoredRow(0, 0, 1), r1 |-> "occupied"],
    [bookings |-> <<StoredBooking("checked_out", TRUE, <<"r1">>)>>,
     row |-> StoredRow(0, 0, 1), r1 |-> "available"],
    [bookings |-> <<StoredBooking("cancelled", FALSE, <<>>)>>,
     row |-> StoredRow(1, 0, 0), r1 |-> "available"] }

Init ==
  \E st \in Stores :
    /\ roomInventory =
         [k \in Keys |-> IF k[2] = "deluxe" /\ k[3] \in SeedDates
                           THEN st.row ELSE NoRow]
    /\ rooms = [r \in RoomIds |->
                  IF r = "r1"
                    THEN [exists |-> TRUE, hotel_id |-> "h1", room_type |-> "deluxe",
                          status |-> st.r1, price_per_night |-> PricePerNight,
                          is_active |-> TRUE]
                    ELSE NoRoom]
    /\ bookings = st.bookings
    /\ hotels = [h \in Hotels |->
                   [exists |-> TRUE, floor_count |-> 1, room_count |-> 1]]
    /\ calls = [s \in Slots |-> Idle]
    /\ lastCall = Idle
    /\ now = 0
    /\ started = 0
    /\ epoch = [k \in Keys |-> IF k[2] = "deluxe" /\ k[3] \in SeedDates
                                 THEN NewEpoch(st.row) ELSE NewEpoch(NoRow)]
    /\ released = EmptyBag

Next ==
  \/ \E c \in Slots, in \in BookingInputs : create_booking(c, in)
  \/ \E c \in Slots : CreateFind(c)
  \/ \E c \in Slots : CreateLock(c)
  \/ \E c \in Slots : CreatePrice(c)
  \/ \E c \in Slots : CreateInsert(c)
  \/ \E c \in Slots, bid \in BookingIds : cancel_booking(c, bid)
  \/ \E c \in Slots : CancelFetch(c)
  \/ \E c \in Slots : CancelRelease(c)
  \/ \E c \in Slots : CancelRooms(c)
  \/ \E c \in Slots : CancelStatus(c)
  \/ \E c \in Slots, bid \in BookingIds : checkout_booking(c, bid)
  \/ \E c \in Slots : CheckoutFetch(c)
  \/ \E c \in Slots : CheckoutRooms(c)
  \/ \E c \in Slots : CheckoutStatus(c)
  \/ \E c \in Slots, bid \in BookingIds, as \in AssignmentLists :
       assign_rooms_to_booking(c, bid, as)
  \/ \E c \in Slots : AssignFetch(c)
  \/ \E c \in Slots : AssignRooms(c)
  \/ \E c \in Slots : AssignMove(c)
  \/ \E c \in Slots : AssignOccupy(c)
  \/ \E c \in Slots : AssignStatus(c)
  \/ \E c \in Slots, in \in RoomInputs : create_room(c, in)
  \/ \E c \in Slots : RoomFindHotel(c)
  \/ \E c \in Slots : RoomFindRoom(c)
  \/ \E c \in Slots : RoomInsert(c)
  \/ \E c \in Slots : RoomSeedUpdate(c)
  \/ \E c \in Slots : RoomSeedInsert(c)
  \/ \E c \in Slots : RoomHotelUpdate(c)
  \/ Tick

Spec == Init /\ [][Next]_vars

\* The handlers of a booking with its payments and charges (no room is created).
NextPay ==
  \/ \E c \in Slots, bid \in BookingIds, amount \in PayAmounts :
       add_payment(c, bid, amount)
  \/ \E c \in Slots : PayFind(c)
  \/ \E c \in Slots : PayUpdate(c)
  \/ \E c \in Slots, bid \in BookingIds, amount \in ChargeAmounts :
       add_room_charge(c, bid, amount)
  \/ \E c \in Slots : ChargeFind(c)
  \/ \E c \in Slots : ChargeUpdate(c)
  \/ \E c \in Slots, in \in BookingInputs : create_booking(c, in)
  \/ \E c \in Slots : CreateFind(c)
  \/ \E c \in Slots : CreateLock(c)
  \/ \E c \in Slots : CreatePrice(c)
  \/ \E c \in Slots : CreateInsert(c)
  \/ \E c \in Slots, bid \in BookingIds : cancel_booking(c, bid)
  \/ \E c \in Slots : CancelFetch(c)
  \/ \E c \in Slots : CancelRelease(c)
  \/ \E c \in Slots : CancelRooms(c)
  \/ \E c \in Slots : CancelStatus(c)
  \/ \E c \in Slots, bid \in BookingIds : checkout_booking(c, bid)
  \/ \E c \in Slots : CheckoutFetch(c)
  \/ \E c \in Slots : CheckoutRooms(c)
  \/ \E c \in Slots : CheckoutStatus(c)
  \/ \E c \in Slots, bid \in BookingIds, as \in AssignmentLists :
       assign_rooms_to_booking(c, bid, as)
  \/ \E c \in Slots : AssignFetch(c)
  \/ \E c \in Slots : AssignRooms(c)
  \/ \E c \in Slots : AssignMove(c)
  \/ \E c \in Slots : AssignOccupy(c)
  \/ \E c \in Slots : AssignStatus(c)
  \/ Tick

SpecPay == Init /\ [][NextPay]_vars

\* The handlers of the rooms: creation with any input, and soft deletion.
NextRooms ==
  \/ \E c \in Slots, in \in AnyRoomInputs : create_room(c, in)
  \/ \E c \in Slots : RoomFindHotel(c)
  \/ \E c \in Slots : RoomFindRoom(c)
  \/ \E c \in Slots : RoomInsert(c)
  \/ \E c \in Slots : RoomSeedUpdate(c)
  \/ \E c \in Slots : RoomSeedInsert(c)
  \/ \E c \in Slots : RoomHotelUpdate(c)
  \/ \E c \in Slots, id \in RoomIds : delete_room(c, id)
  \/ \E c \in Slots : DeleteFind(c)
  \/ \E c \in Slots : DeleteActive(c)
  \/ \E c \in Slots : DeleteSet(c)
  \/ \E c \in Slots : DeleteHotelUpdate(c)
  \/ \E c \in Slots : DeleteInventory(c)

SpecRooms == Init /\ [][NextRooms]_vars

\* Two CONFIRMED bookings of one deluxe room each are stored, both carrying
\* room_type_summary, and the deluxe rooms r1 and r2 are available.
InitTwo ==
  /\ roomInventory =
       [k \in Keys |-> IF k[2] = "deluxe" /\ k[3] \in SeedDates
                         THEN [StoredRow(0, 2, 0) EXCEPT !.total_rooms = 2]
                         ELSE NoRow]
  /\ rooms = [r \in RoomIds |->
                IF r \in RoomNumbers
                  THEN [exists |-> TRUE, hotel_id |-> "h1", room_type |-> "deluxe",
                        status |-> "available", price_per_night |-> PricePerNight,
                        is_active |-> TRUE]
                  ELSE NoRoom]
  /\ bookings = <<StoredBooking("confirmed", TRUE, <<>>),
                  [StoredBooking("confirmed", TRUE, <<>>) EXCEPT !.booking_number = -2]>>
  /\ hotels = [h \in Hotels |->
                 [exists |-> TRUE, floor_count |-> 1, room_count |-> 2]]
  /\ calls = [s \in Slots |-> Idle]
  /\ lastCall = Idle
  /\ now = 0
  /\ started = 0
  /\ epoch = [k \in Keys |-> NewEpoch(NoRow)]
  /\ released = EmptyBag

\* The handlers that bind rooms to a booking and free them.
NextAssign ==
  \/ \E c \in Slots, bid \in BookingIds, as \in AssignmentLists :
       assign_rooms_to_booking(c, bid, as)
  \/ \E c \in Slots : AssignFetch(c)
  \/ \E c \in Slots : AssignRooms(c)
  \/ \E c \in Slots : AssignMove(c)
  \/ \E c \in Slots : AssignOccupy(c)
  \/ \E c \in Slots : AssignStatus(c)
  \/ \E c \in Slots, bid \in BookingIds : cancel_booking(c, bid)
  \/ \E c \in Slots : CancelFetch(c)
  \/ \E c \in Slots : CancelRelease(c)
  \/ \E c \in Slots : CancelRooms(c)
  \/ \E c \in Slots : CancelStatus(c)
  \/ \E c \in Slots, bid \in BookingIds : checkout_booking(c, bid)
  \/ \E c \in Slots : CheckoutFetch(c)
  \/ \E c \in Slots : CheckoutRooms(c)
  \/ \E c \in Slots : CheckoutStatus(c)

SpecAssign == InitTwo /\ [][NextAssign]_vars

\* create_booking alone, over every request the schema admits.
NextCreate ==
  \/ \E c \in Slots, in \in AnyBookingInputs : create_booking(c, in)
  \/ \E c \in Slots : CreateFind(c)
  \/ \E c \in Slots : CreateLock(c)
  \/ \E c \in Slots : CreatePrice(c)
  \/ \E c \in Slots : CreateInsert(c)
  \/ Tick

SpecCreate == Init /\ [][NextCreate]_vars

(* ------------------------------ properties ---------------------------- *)
\* the nights of a stay: check_in_date <= d < check_out_date
Stay(in) == {d \in Dates : in.check_in_date <= d /\ d < in.check_out_date}

\* the rooms a list of groups asks of row k
RECURSIVE Need(_, _, _)
Need(in, groups, k) ==
  IF groups = <<>> THEN 0
  ELSE (IF /\ in.hotel_id = k[1]
           /\ Head(groups).room_type = k[2]
           /\ k[3] \in Stay(in)
          THEN Head(groups).number_of_rooms ELSE 0)
       + Need(in, Tail(groups), k)

Returned(op) == lastCall.op = op /\ lastCall.pc = "returned"

\* C1: every inventory row has total_rooms = available_rooms + locked_rooms +
\* booked_rooms, in every state, between the steps of every request too
C1_Conservation ==
  \A k \in Keys :
    roomInventory[k].exists =>
      roomInventory[k].total_rooms =
        roomInventory[k].available_rooms + roomInventory[k].locked_rooms
          + roomInventory[k].booked_rooms

\* a create_booking that ran alone failed after it had changed some row
C1_Witness ==
  /\ Returned("create_booking") /\ lastCall.result = "error" /\ lastCall.alone
  /\ roomInventory # lastCall.pre.roomInventory

\* C2: since a row last had k rooms available, reservations took at most k
\* units of it, and a one-room reservation was refused only once all k were
\* taken (so of N >= k overlapping one-room calls exactly k reserve the row)
C2_NoOversell ==
  \A k \in Keys :
    roomInventory[k].exists =>
      /\ epoch[k].won <= epoch[k].k
      /\ epoch[k].lost > 0 => epoch[k].won = epoch[k].k

\* two overlapping one-room calls raced for the last room: one took it, the
\* other passed the read and was refused by the conditional update
C2_Witness ==
  /\ Returned("create_booking") /\ ~lastCall.alone
  /\ lastCall.err = "failed_to_lock"
  /\ \E k \in Keys : /\ roomInventory[k].exists
                     /\ epoch[k].k >= 1
                     /\ epoch[k].won = epoch[k].k
                     /\ epoch[k].lost >= 1

\* C3: after a create_booking that failed (run alone), every inventory row is
\* as it was before the call
C3_CreationRollback ==
  (Returned("create_booking") /\ lastCall.result = "error" /\ lastCall.alone)
    => roomInventory = lastCall.pre.roomInventory

\* the groups of a request ask for at least one room each, for at least a night
ProperRequest(in) ==
  /\ in.check_in_date < in.check_out_date
  /\ Len(in.room_type_bookings) > 0
  /\ \A i \in 1..Len(in.room_type_bookings) : in.room_type_bookings[i].number_of_rooms >= 1

\* C4: a create_booking that succeeded (run alone) took its number_of_rooms
\* from available_rooms to locked_rooms on the row of each night, and one that
\* finds no room available on any of its nights (as the second of two identical
\* requests for all the rooms does) fails
C4_Reserve ==
  Returned("create_booking") /\ lastCall.alone =>
    LET in == lastCall.arg
        was == lastCall.pre.roomInventory
    IN  /\ lastCall.result = "ok" =>
             \A k \in Keys :
               LET n == Need(in, in.room_type_bookings, k)
               IN  /\ n > 0 => was[k].exists /\ was[k].available_rooms >= n
                   /\ roomInventory[k] =
                        [was[k] EXCEPT !.available_rooms = @ - n, !.locked_rooms = @ + n]
        /\ ( /\ ProperRequest(in)
             /\ \A k \in Keys : Need(in, in.room_type_bookings, k) > 0 =>
                                  was[k].exists /\ was[k].available_rooms = 0 )
           => /\ lastCall.result = "error"
              /\ lastCall.err = "not_enough_rooms"
              /\ roomInventory = was

\* a booking made in this behaviour holds every room of its nights, and an
\* identical second request has just been refused
C4_Witness ==
  /\ Returned("create_booking") /\ lastCall.alone
  /\ lastCall.err = "not_enough_rooms"
  /\ Cardinality(Stay(lastCall.arg)) >= 2
  /\ \E b \in 1..Len(bookings) :
       /\ bookings[b].booking_number >= 0
       /\ bookings[b] = NewBooking(lastCall.arg, bookings[b].booking_number,
                                   bookings[b].base_amount)
       /\ \A k \in Keys :
            Need(lastCall.arg, lastCall.arg.room_type_bookings, k) > 0 =>
              /\ roomInventory[k].available_rooms = 0
              /\ roomInventory[k].locked_rooms =
                   Need(lastCall.arg, lastCall.arg.room_type_bookings, k)

\* some night of the stay has no row for a requested room type, or fewer
\* available rooms than requested
Short(in, inv) ==
  \E i \in 1..Len(in.room_type_bookings), d \in in.check_in_date..(in.check_out_date - 1) :
    LET k == Key(in.hotel_id, in.room_type_bookings[i].room_type, d)
    IN  \/ k \notin Keys
        \/ ~inv[k].exists
        \/ inv[k].available_rooms < in.room_type_bookings[i].number_of_rooms

\* C5: a create_booking (run alone) whose stay has such a night fails, stores
\* no booking, and leaves the rows that were missing or short as they were
C5_Insufficient ==
  (Returned("create_booking") /\ lastCall.alone
     /\ Short(lastCall.arg, lastCall.pre.roomInventory))
    => /\ lastCall.result = "error"
       /\ bookings = lastCall.pre.bookings
       /\ \A i \in 1..Len(lastCall.arg.room_type_bookings), d \in Stay(lastCall.arg) :
            LET k == Key(lastCall.arg.hotel_id,
                         lastCall.arg.room_type_bookings[i].room_type, d)
                was == lastCall.pre.roomInventory[k]
            IN  (~was.exists \/ was.available_rooms
                                  < lastCall.arg.room_type_bookings[i].number_of_rooms)
                  => roomInventory[k] = was

\* a request whose last night lies beyond the seeded days was refused there,
\* after its earlier nights were reserved
C5_Witness ==
  /\ Returned("create_booking") /\ lastCall.alone
  /\ lastCall.err = "inventory_not_configured"
  /\ lastCall.day >= 1
  /\ Short(lastCall.arg, lastCall.pre.roomInventory)

LegalMove(from, to) ==
  \/ from = to
  \/ <<from, to>> \in {<<"confirmed", "checked_in">>, <<"checked_in", "checked_out">>,
                       <<"confirmed", "cancelled">>, <<"checked_in", "cancelled">>}

\* C6: every change of a booking's booking_status is CONFIRMED->CHECKED_IN,
\* CHECKED_IN->CHECKED_OUT, CONFIRMED->CANCELLED or CHECKED_IN->CANCELLED
C6_StatusPath ==
  [][\A b \in 1..Len(bookings) :
       LegalMove(bookings[b].booking_status, bookings'[b].booking_status)]_vars

\* the statuses each transition starts from
SourceStatus(op) ==
  CASE op = "assign_rooms_to_booking" -> {"confirmed"}
    [] op = "cancel_booking" -> {"confirmed", "checked_in"}
    [] op = "checkout_booking" -> {"checked_in"}
    [] OTHER -> {}

\* C7: assign_rooms_to_booking, cancel_booking or checkout_booking (run alone)
\* on a stored booking that is not in a source status of the transition returns
\* an error and leaves bookings, inventory rows and rooms as they were
C7_Refused ==
  ( /\ lastCall.pc = "returned" /\ lastCall.alone
    /\ lastCall.op \in {"assign_rooms_to_booking", "cancel_booking", "checkout_booking"}
    /\ lastCall.arg.booking_id \in 1..Len(lastCall.pre.bookings)
    /\ lastCall.pre.bookings[lastCall.arg.booking_id].booking_status
         \notin SourceStatus(lastCall.op) )
    => /\ lastCall.result = "error"
       /\ Snapshot = lastCall.pre

\* a cancel_booking of a checked-out or cancelled booking was refused
C7_Witness ==
  /\ Returned("cancel_booking") /\ lastCall.alone
  /\ lastCall.err = "not_cancellable"
  /\ lastCall.bk.booking_status \in {"checked_out", "cancelled"}

\* C8: the four counters of every inventory row are >= 0
C8_NonNegative ==
  \A k \in Keys :
    roomInventory[k].exists =>
      /\ roomInventory[k].total_rooms >= 0
      /\ roomInventory[k].available_rooms >= 0
      /\ roomInventory[k].locked_rooms >= 0
      /\ roomInventory[k].booked_rooms >= 0

\* C9: no release of a booking's group and night is applied twice, and
\* locked_rooms and booked_rooms never fall below zero
C9_IdempotentRelease ==
  /\ \A t \in BagToSet(released) : CopiesIn(t, released) <= 1
  /\ \A k \in Keys :
       roomInventory[k].exists =>
         roomInventory[k].locked_rooms >= 0 /\ roomInventory[k].booked_rooms >= 0

\* the assignments name, group by group, number_of_rooms distinct rooms of the
\* booking's hotel and the group's type that are available
ValidAssignments(bk, as, rms) ==
  /\ Len(as) = Len(bk.room_type_bookings)
  /\ \A i \in 1..Len(as) :
       /\ as[i].room_type = bk.room_type_bookings[i].room_type
       /\ Len(as[i].room_ids) = bk.room_type_bookings[i].number_of_rooms
       /\ \A x, y \in 1..Len(as[i].room_ids) :
            as[i].room_ids[x] = as[i].room_ids[y] => x = y
       /\ \A x \in 1..Len(as[i].room_ids) :
            LET r == rms[as[i].room_ids[x]]
            IN  /\ r.exists /\ r.hotel_id = bk.hotel_id
                /\ r.room_type = as[i].room_type /\ r.status = "available"

AssignedRooms(as) ==
  {r \in RoomIds : \E i \in 1..Len(as) : \E x \in 1..Len(as[i].room_ids) :
                     as[i].room_ids[x] = r}

\* C10: assign_rooms_to_booking (run alone) on a CONFIRMED booking with valid
\* rooms for each group succeeds: it moves number_of_rooms from locked_rooms to
\* booked_rooms on each night's row, sets the rooms occupied, stores them in
\* room_ids and sets booking_status CHECKED_IN
C10_Assign ==
  ( /\ Returned("assign_rooms_to_booking") /\ lastCall.alone
    /\ lastCall.arg.booking_id \in 1..Len(lastCall.pre.bookings)
    /\ lastCall.pre.bookings[lastCall.arg.booking_id].booking_status = "confirmed"
    /\ ValidAssignments(lastCall.pre.bookings[lastCall.arg.booking_id],
                        lastCall.arg.assignments, lastCall.pre.rooms) )
    => LET b == lastCall.arg.booking_id
           bk == lastCall.pre.bookings[b]
           was == lastCall.pre.roomInventory
       IN  /\ lastCall.result = "ok"
           /\ bookings[b].booking_status = "checked_in"
           /\ {bookings[b].room_ids[x] : x \in 1..Len(bookings[b].room_ids)}
                = AssignedRooms(lastCall.arg.assignments)
           /\ \A r \in AssignedRooms(lastCall.arg.assignments) :
                rooms[r].status = "occupied"
           /\ \A k \in Keys :
                LET n == Need(bk, bk.room_type_bookings, k)
                IN  roomInventory[k] =
                      [was[k] EXCEPT !.locked_rooms = @ - n, !.booked_rooms = @ + n]

\* the errors assign_rooms_to_booking raises when it validates a group
ValidationErrors ==
  {"key_error_room_type_summary", "room_count_mismatch", "invalid_or_unavailable_rooms"}

MoveStep(c) ==
  /\ calls[c].op = "assign_rooms_to_booking" /\ calls[c].pc = "move"
  /\ \/ calls'[c].op = "idle"
     \/ calls'[c].pc # "move"
     \/ calls'[c].day # calls[c].day
     \/ calls'[c].gi # calls[c].gi

\* C12: the update of a night's row by assign_rooms_to_booking moves n rooms from
\* locked_rooms to booked_rooms if the row has locked_rooms >= n at that instant
\* and goes on; otherwise the call returns an error there, the row, the rooms and
\* the booking are left as they are and the call does nothing more
C12_GuardedMove ==
  [][\A c \in Slots :
       MoveStep(c) =>
         LET a == calls[c].arg.assignments[calls[c].gi]
             n == Len(a.room_ids)
             k == Key(calls[c].bk.hotel_id, a.room_type,
                      calls[c].bk.check_in_date + calls[c].day)
         IN  IF roomInventory[k].exists /\ roomInventory[k].locked_rooms >= n
               THEN /\ roomInventory'[k].locked_rooms = roomInventory[k].locked_rooms - n
                    /\ roomInventory'[k].booked_rooms = roomInventory[k].booked_rooms + n
                    /\ lastCall'.err # "inventory_update_failed"
               ELSE /\ calls'[c].op = "idle"
                    /\ lastCall'.op = "assign_rooms_to_booking"
                    /\ lastCall'.err = "inventory_update_failed"
                    /\ roomInventory' = roomInventory
                    /\ rooms' = rooms
                    /\ bookings' = bookings]_vars

\* an assign_rooms_to_booking was refused at the update of a row whose locked
\* rooms an overlapping request had taken
C12_Witness ==
  /\ Returned("assign_rooms_to_booking")
  /\ lastCall.err = "inventory_update_failed"

AloneOn(op, status) ==
  /\ Returned(op) /\ lastCall.alone
  /\ lastCall.arg.booking_id \in 1..Len(lastCall.pre.bookings)
  /\ lastCall.pre.bookings[lastCall.arg.booking_id].booking_status = status

\* the rooms are as before the call, but for those of ids, which are available
RoomsFreed(ids) ==
  \A r \in RoomIds :
    IF lastCall.pre.rooms[r].exists /\ \E x \in 1..Len(ids) : ids[x] = r
      THEN rooms[r] = [lastCall.pre.rooms[r] EXCEPT !.status = "available"]
      ELSE rooms[r] = lastCall.pre.rooms[r]

\* C14: cancel_booking (run alone) on a CONFIRMED booking succeeds; on the row
\* of every night of every group locked_rooms is down and available_rooms up by
\* the group's number_of_rooms, booked_rooms and total_rooms are as before, every
\* other row and every room is as before, and booking_status is CANCELLED
C14_CancelConfirmed ==
  AloneOn("cancel_booking", "confirmed") =>
    LET b == lastCall.arg.booking_id
        bk == lastCall.pre.bookings[b]
        was == lastCall.pre.roomInventory
    IN  /\ lastCall.result = "ok"
        /\ \A k \in Keys :
             LET n == Need(bk, bk.room_type_bookings, k)
             IN  roomInventory[k] =
                   IF was[k].exists
                     THEN [was[k] EXCEPT !.locked_rooms = @ - n, !.available_rooms = @ + n]
                     ELSE was[k]
        /\ rooms = lastCall.pre.rooms
        /\ bookings[b].booking_status = "cancelled"

\* a CONFIRMED booking was cancelled and its rooms went back to available_rooms
C14_Witness ==
  /\ AloneOn("cancel_booking", "confirmed")
  /\ lastCall.result = "ok"
  /\ \E k \in Keys :
       /\ lastCall.pre.roomInventory[k].locked_rooms >= 1
       /\ roomInventory[k].available_rooms
            = lastCall.pre.roomInventory[k].available_rooms + 1

\* C15: cancel_booking (run alone) on a CHECKED_IN booking succeeds; on the row
\* of every night of every group booked_rooms is down and available_rooms up by
\* the group's number_of_rooms, locked_rooms is as before, every room of the
\* booking's room_ids is available, and booking_status is CANCELLED
C15_CancelCheckedIn ==
  AloneOn("cancel_booking", "checked_in") =>
    LET b == lastCall.arg.booking_id
        bk == lastCall.pre.bookings[b]
        was == lastCall.pre.roomInventory
    IN  /\ lastCall.result = "ok"
        /\ \A k \in Keys :
             LET n == Need(bk, bk.room_type_bookings, k)
             IN  roomInventory[k] =
                   IF was[k].exists
                     THEN [was[k] EXCEPT !.booked_rooms = @ - n, !.available_rooms = @ + n]
                     ELSE was[k]
        /\ RoomsFreed(bk.room_ids)
        /\ bookings[b].booking_status = "cancelled"

\* a CHECKED_IN booking with an occupied room was cancelled
C15_Witness ==
  /\ AloneOn("cancel_booking", "checked_in")
  /\ lastCall.result = "ok"
  /\ \E r \in RoomIds : /\ lastCall.pre.rooms[r].status = "occupied"
                        /\ rooms[r].status = "available"
  /\ \E k \in Keys : /\ lastCall.pre.roomInventory[k].booked_rooms >= 1
                     /\ roomInventory[k].booked_rooms
                          = lastCall.pre.roomInventory[k].booked_rooms - 1

\* C16: checkout_booking (run alone) succeeds exactly on a stored CHECKED_IN
\* booking; it then sets booking_status CHECKED_OUT and the rooms of room_ids
\* available, and every inventory row is as before the call
C16_Checkout ==
  (Returned("checkout_booking") /\ lastCall.alone) =>
    LET b == lastCall.arg.booking_id
        stored == b \in 1..Len(lastCall.pre.bookings)
    IN  /\ lastCall.result = "ok"
             <=> (stored /\ lastCall.pre.bookings[b].booking_status = "checked_in")
        /\ lastCall.result = "ok" =>
             /\ bookings[b].booking_status = "checked_out"
             /\ RoomsFreed(lastCall.pre.bookings[b].room_ids)
             /\ roomInventory = lastCall.pre.roomInventory
        /\ lastCall.result # "ok" => Snapshot = lastCall.pre

\* a CHECKED_IN booking was checked out: its room is free again and the rows of
\* its nights still count it in booked_rooms
C16_Witness ==
  /\ AloneOn("checkout_booking", "checked_in")
  /\ lastCall.result = "ok"
  /\ \E r \in RoomIds : /\ lastCall.pre.rooms[r].status = "occupied"
                        /\ rooms[r].status = "available"
  /\ \E k \in Keys : roomInventory[k].booked_rooms >= 1

\* the payment_status the payments and the total of a booking call for
StatusFor(bk) ==
  LET paid == SumOf(bk.payments)
  IN  IF paid >= bk.total_amount THEN "paid"
      ELSE IF paid > 0 /\ paid < bk.total_amount THEN "partial"
      ELSE "pending"

\* C17: after an add_payment that succeeded and overlapped no other request,
\* payment_status is PAID if the payments, the new one included, sum to at least
\* total_amount, PARTIAL if they sum to more than 0 and less than total_amount,
\* and PENDING otherwise
C17_PaymentStatus ==
  (Returned("add_payment") /\ lastCall.result = "ok" /\ lastCall.alone)
    => LET b == lastCall.arg.booking_id
       IN  /\ bookings[b].payments
                = Append(lastCall.pre.bookings[b].payments, lastCall.arg.amount)
           /\ bookings[b].payment_status = StatusFor(bookings[b])

\* a second payment brought the sum to exactly total_amount: PAID
C17_Witness ==
  /\ Returned("add_payment") /\ lastCall.result = "ok" /\ lastCall.alone
  /\ LET bk == bookings[lastCall.arg.booking_id]
     IN  /\ Len(bk.payments) = 2
         /\ bk.payments[1] > 0 /\ bk.payments[2] > 0
         /\ SumOf(bk.payments) = bk.total_amount
         /\ bk.payment_status = "paid"

\* C18: after every create_booking, add_payment and add_room_charge of a
\* sequence of such calls, the stored payment_status of every booking is the
\* status its stored payments and its stored total_amount call for
C18_StatusIsFunction ==
  ( /\ lastCall.pc = "returned" /\ lastCall.alone
    /\ lastCall.op \in {"create_booking", "add_payment", "add_room_charge"} )
    => \A b \in 1..Len(bookings) :
         bookings[b].payment_status = StatusFor(bookings[b])

\* C19: add_payment on a stored booking succeeds whatever its booking_status;
\* add_room_charge (run alone) succeeds exactly on a stored CHECKED_IN booking,
\* and when it does not, every booking keeps its room_charges and total_amount
C19_PayAnyChargeCheckedIn ==
  /\ ( /\ Returned("add_payment")
       /\ lastCall.arg.booking_id \in 1..Len(lastCall.pre.bookings) )
       => lastCall.result = "ok"
  /\ (Returned("add_room_charge") /\ lastCall.alone)
       => LET b == lastCall.arg.booking_id
              stored == b \in 1..Len(lastCall.pre.bookings)
          IN  /\ lastCall.result = "ok"
                   <=> (stored /\ lastCall.pre.bookings[b].booking_status = "checked_in")
              /\ lastCall.result # "ok" =>
                   /\ lastCall.result = "error"
                   /\ \A x \in 1..Len(bookings) :
                        /\ bookings[x].room_charges = lastCall.pre.bookings[x].room_charges
                        /\ bookings[x].total_amount = lastCall.pre.bookings[x].total_amount

\* a payment was taken on a booking that is checked out or cancelled, and a
\* charge on that booking has just been refused
C19_Witness ==
  /\ Returned("add_room_charge") /\ lastCall.alone
  /\ lastCall.result = "error"
  /\ lastCall.arg.booking_id \in 1..Len(bookings)
  /\ LET bk == bookings[lastCall.arg.booking_id]
     IN  /\ bk.booking_status \in {"checked_out", "cancelled"}
         /\ Len(bk.payments) = 1
         /\ bk.room_charges = <<>>

\* the step is the successful return of op on booking b
Succeeds(op, b) ==
  /\ lastCall'.op = op /\ lastCall'.pc = "returned" /\ lastCall'.result = "ok"
  /\ lastCall'.arg.booking_id = b

\* C20: in every step, of any handler in any interleaving, the payments of a
\* booking stay as they are unless the step is a successful add_payment on it,
\* which appends its one payment; its room_charges and total_amount stay as they
\* are unless the step is a successful add_room_charge on it, which appends its
\* one charge and adds the amount to total_amount
C20_AppendOnly ==
  [][\A b \in 1..Len(bookings) :
       /\ Len(bookings') >= Len(bookings)
       /\ bookings'[b].payments =
            IF Succeeds("add_payment", b)
              THEN Append(bookings[b].payments, lastCall'.arg.amount)
              ELSE bookings[b].payments
       /\ bookings'[b].room_charges =
            IF Succeeds("add_room_charge", b)
              THEN Append(bookings[b].room_charges, lastCall'.arg.amount)
              ELSE bookings[b].room_charges
       /\ bookings'[b].total_amount =
            IF Succeeds("add_room_charge", b)
              THEN bookings[b].total_amount + lastCall'.arg.amount
              ELSE bookings[b].total_amount]_vars

\* a booking holds two payments, or a payment and a charge, the last of them
\* added by a call that overlapped another request
C20_Witness ==
  /\ lastCall.pc = "returned" /\ lastCall.result = "ok" /\ ~lastCall.alone
  /\ lastCall.op \in {"add_payment", "add_room_charge"}
  /\ LET bk == bookings[lastCall.arg.booking_id]
     IN  Len(bk.payments) + Len(bk.room_charges) = 2

\* price_per_night * nights * number_of_rooms, summed over the groups
RECURSIVE GroupsBase(_, _)
GroupsBase(groups, nights) ==
  IF groups = <<>> THEN 0
  ELSE PriceOf(Head(groups).room_type) * nights * Head(groups).number_of_rooms
       + GroupsBase(Tail(groups), nights)

\* the successful create_booking that has just returned, and what it stored
Created == Returned("create_booking") /\ lastCall.result = "ok"

CreatedBooking == bookings[Len(bookings)]

C22_CreatedConfirmed ==
  /\ Created =>
       /\ Len(bookings) = Len(lastCall.pre.bookings) + 1
            \/ ~lastCall.alone
       /\ CreatedBooking.booking_status = "confirmed"
       /\ CreatedBooking.payment_status = "pending"
       /\ CreatedBooking.payments = <<>>
       /\ CreatedBooking.room_charges = <<>>
  /\ \A b \in 1..Len(bookings) : bookings[b].booking_status # "pending"

\* a booking was created next to a stored one on which a payment was taken
C22_Witness ==
  /\ Created
  /\ Len(bookings) = 2
  /\ lastCall.arg.room_type_bookings # <<>>
  /\ bookings[1].payments # <<>>
  /\ CreatedBooking.payment_status = "pending"

\* C23: a create_room that succeeded (run alone) has seeded the row of the
\* room's hotel and type on each seeded day from today: a row that was missing
\* is there with total_rooms 1, available_rooms 1, locked_rooms 0, booked_rooms
\* 0, and a row that was there has total_rooms and available_rooms up by one and
\* locked_rooms and booked_rooms as before
C23_Seed ==
  (Returned("create_room") /\ lastCall.result = "ok" /\ lastCall.alone) =>
    \A d \in Today..(Today + SeedDays - 1) :
      LET k == Key(lastCall.arg.hotel_id, lastCall.arg.room_type, d)
          was == lastCall.pre.roomInventory[k]
      IN  roomInventory[k] =
            IF was.exists
              THEN [was EXCEPT !.total_rooms = @ + 1, !.available_rooms = @ + 1]
              ELSE [exists |-> TRUE, total_rooms |-> 1, available_rooms |-> 1,
                    locked_rooms |-> 0, booked_rooms |-> 0]

\* a second deluxe room was created while a booking held the first: the rows of
\* the seeded days count two rooms, one available and one still locked
C23_Witness ==
  /\ Returned("create_room") /\ lastCall.result = "ok" /\ lastCall.alone
  /\ \A d \in Today..(Today + SeedDays - 1) :
       LET k == Key(lastCall.arg.hotel_id, lastCall.arg.room_type, d)
       IN  /\ lastCall.pre.roomInventory[k].exists
           /\ lastCall.pre.roomInventory[k].locked_rooms = 1
           /\ roomInventory[k].total_rooms = 2
           /\ roomInventory[k].available_rooms = 1
           /\ roomInventory[k].locked_rooms = 1

\* C24: a delete_room that succeeded (run alone) has taken one from total_rooms
\* and one from available_rooms on today's row of the room's hotel and type, has
\* changed no other inventory row, and has left the room with is_active false
C24_SoftDelete ==
  (Returned("delete_room") /\ lastCall.result = "ok" /\ lastCall.alone) =>
    LET room == lastCall.pre.rooms[lastCall.arg.id]
        was == lastCall.pre.roomInventory
    IN  /\ room.exists
        /\ ~rooms[lastCall.arg.id].is_active
        /\ \A k \in Keys :
             roomInventory[k] =
               IF k = Key(room.hotel_id, room.room_type, Today)
                 THEN [was[k] EXCEPT !.total_rooms = @ - 1, !.available_rooms = @ - 1]
                 ELSE was[k]

\* an active room was deleted: today's row counts a room less than the row of
\* the next day, which counts the rooms it counted before
C24_Witness ==
  /\ Returned("delete_room") /\ lastCall.result = "ok" /\ lastCall.alone
  /\ lastCall.pre.rooms[lastCall.arg.id].is_active
  /\ LET room == lastCall.pre.rooms[lastCall.arg.id]
         k == Key(room.hotel_id, room.room_type, Today)
         next == Key(room.hotel_id, room.room_type, Today + 1)
     IN  /\ lastCall.pre.roomInventory[k].exists
         /\ roomInventory[k].total_rooms = lastCall.pre.roomInventory[k].total_rooms - 1
         /\ roomInventory[next].exists
         /\ roomInventory[next].total_rooms = roomInventory[k].total_rooms + 1

\* row k is the row of a night of the stay for one of the booking's room types
InFrame(bk, k) ==
  /\ k[1] = bk.hotel_id
  /\ \E i \in 1..Len(bk.room_type_bookings) : bk.room_type_bookings[i].room_type = k[2]
  /\ bk.check_in_date <= k[3] /\ k[3] < bk.check_out_date

\* the booking a request works on: the input of create_booking, the document
\* the other two fetched
BookingOf(rec) == IF rec.op = "create_booking" THEN rec.arg ELSE rec.bk

\* C25: a step of create_booking, assign_rooms_to_booking or cancel_booking
\* changes only inventory rows of the booking's hotel, of one of its room types
\* and of a night d with check_in_date <= d < check_out_date
C25_PerNightFrame ==
  [][\A c \in Slots :
       ( /\ calls[c].op \in {"create_booking", "assign_rooms_to_booking", "cancel_booking"}
         /\ calls'[c] # calls[c] )
       => \A k \in Keys :
            roomInventory'[k] # roomInventory[k] => InFrame(BookingOf(calls[c]), k)]_vars

\* a booking was cancelled: the rows of its nights changed, and a row of another
\* room type is as it was
C25_Witness ==
  /\ Returned("cancel_booking") /\ lastCall.result = "ok" /\ lastCall.alone
  /\ \E k \in Keys : /\ InFrame(lastCall.bk, k)
                     /\ roomInventory[k] # lastCall.pre.roomInventory[k]
  /\ \E k \in Keys : /\ ~InFrame(lastCall.bk, k)
                     /\ roomInventory[k].exists
                     /\ roomInventory[k] = lastCall.pre.roomInventory[k]

\* C26: a booking in status CONFIRMED has no room ids bound to it: its room_ids
\* and the room_ids of each of its room-type groups are empty, whatever room_ids
\* the create_booking input carried
C26_NoRoomsUntilAssigned ==
  \A b \in 1..Len(bookings) :
    bookings[b].booking_status = "confirmed" =>
      /\ bookings[b].room_ids = <<>>
      /\ \A i \in 1..Len(bookings[b].room_type_bookings) :
           bookings[b].room_type_bookings[i].room_ids = <<>>

\* C27: no two stored bookings share a booking_number, also when two
\* create_booking calls take their number within the same clock second
C27_UniqueNumber ==
  \A a, b \in 1..Len(bookings) :
    a # b => bookings[a].booking_number # bookings[b].booking_number

\* two create_booking calls took the same number within one second: one is
\* stored and the insert of the other has just been refused
C27_Witness ==
  /\ Returned("create_booking")
  /\ lastCall.err = "duplicate_booking_number"
  /\ lastCall.bn = BookingNumber(now)
  /\ \E b \in 1..Len(bookings) : bookings[b].booking_number = lastCall.bn

\* the slot's create_booking is at the read or at the update of a night's row
\* and takes its step
ReserveStep(c) ==
  /\ calls[c].op = "create_booking" /\ calls[c].pc \in {"find", "lock"}
  /\ calls'[c].op = "idle" \/ calls'[c].pc # calls[c].pc

\* C28: whether create_booking reserves a night is decided at its conditional
\* update alone: on a row that exists, the call reserves the night in the step
\* in which it issues the update with available_rooms >= n, is refused in the
\* step in which it issues the update with available_rooms < n, and is neither
\* reserved nor refused by any earlier read of the row
C28_SingleDecision ==
  [][\A c \in Slots :
       ReserveStep(c) =>
         LET g == calls[c].arg.room_type_bookings[calls[c].gi]
             n == g.number_of_rooms
             k == Key(calls[c].arg.hotel_id, g.room_type,
                      calls[c].arg.check_in_date + calls[c].day)
             row == roomInventory[k]
         IN  row.exists =>
               /\ (roomInventory'[k] = ReserveInc(row, n))
                    <=> (calls[c].pc = "lock" /\ row.available_rooms >= n)
               /\ (calls'[c].op = "idle" /\ lastCall'.result = "error")
                    <=> (calls[c].pc = "lock" /\ row.available_rooms < n)]_vars

\* the input names no stored hotel, or a room number that is taken, or a floor
\* above the hotel's floor_count
Rejectable(in, store) ==
  \/ in.hotel_id \notin Hotels
  \/ ~store.hotels[in.hotel_id].exists
  \/ store.rooms[in.room_number].exists
  \/ in.floor > store.hotels[in.hotel_id].floor_count

\* C29: a create_room (run alone) for an unknown hotel, a taken room number or a
\* floor above the hotel's floor_count returns an error; and a create_room that
\* returned an error has inserted no room, has seeded or changed no inventory
\* row and has left the hotel's room_count as it was
C29_RoomRejected ==
  (Returned("create_room") /\ lastCall.alone) =>
    /\ Rejectable(lastCall.arg, lastCall.pre) => lastCall.result = "error"
    /\ lastCall.result = "error" =>
         /\ rooms = lastCall.pre.rooms
         /\ roomInventory = lastCall.pre.roomInventory
         /\ hotels = lastCall.pre.hotels

\* a room on a floor the hotel does not have, with a free room number, was
\* refused
C29_Witness ==
  /\ Returned("create_room") /\ lastCall.alone
  /\ lastCall.err = "floor_exceeds_floor_count"
  /\ ~rooms[lastCall.arg.room_number].exists
  /\ Snapshot = lastCall.pre

\* the rooms the bookings in one of the statuses ask of row k
RECURSIVE Held(_, _, _)
Held(bks, statuses, k) ==
  IF bks = <<>> THEN 0
  ELSE (IF Head(bks).booking_status \in statuses
          THEN Need(Head(bks), Head(bks).room_type_bookings, k) ELSE 0)
       + Held(Tail(bks), statuses, k)

\* no request is in progress, and every stored booking was created in this
\* behaviour, on rows that had locked_rooms = booked_rooms = 0
Quiescent ==
  /\ \A c \in Slots : ~Running(c)
  /\ \A b \in 1..Len(bookings) : bookings[b].booking_number >= 0

\* C30: whenever no request is in progress, locked_rooms of every row is the sum
\* of number_of_rooms over the CONFIRMED bookings of the row's hotel and room
\* type whose stay covers its date, and booked_rooms is that sum over the
\* CHECKED_IN and CHECKED_OUT bookings
C30_Accounting ==
  Quiescent =>
    \A k \in Keys :
      roomInventory[k].exists =>
        /\ roomInventory[k].locked_rooms = Held(bookings, {"confirmed"}, k)
        /\ roomInventory[k].booked_rooms
             = Held(bookings, {"checked_in", "checked_out"}, k)

\* the rooms of a type that were inserted
RoomsOf(hotel_id, room_type) ==
  {r \in RoomIds : /\ rooms[r].exists
                   /\ rooms[r].hotel_id = hotel_id
                   /\ rooms[r].room_type = room_type}

\* every create_room has returned and no room was ever deleted
AllSeeded ==
  /\ \A c \in Slots : ~Running(c)
  /\ \A r \in RoomIds : rooms[r].exists => rooms[r].is_active

\* C31: once the room creations of a hotel and room type have all returned
\* success, in whatever order their seeding steps ran, the row of every seeded
\* date counts each of the rooms: total_rooms is the number of rooms created and
\* available_rooms the rooms that are neither locked nor booked
C31_SeedingLosesNoRoom ==
  AllSeeded =>
    \A h \in Hotels, t \in RoomTypes, d \in Today..(Today + SeedDays - 1) :
      LET row == roomInventory[Key(h, t, d)]
          n == Cardinality(RoomsOf(h, t))
      IN  n > 0 =>
            /\ row.exists
            /\ row.total_rooms = n
            /\ row.available_rooms = n - row.locked_rooms - row.booked_rooms

\* the CHECKED_IN bookings that hold room r in their room_ids
Holders(r) ==
  {b \in 1..Len(bookings) :
     /\ bookings[b].booking_status = "checked_in"
     /\ \E x \in 1..Len(bookings[b].room_ids) : bookings[b].room_ids[x] = r}

RacedOn(b) ==
  /\ \A c \in Slots : ~Running(c)
  /\ lastCall.pc = "returned" /\ ~lastCall.alone
  /\ lastCall.arg.booking_id = b
  /\ lastCall.bk.booking_status = "confirmed"
  /\ \/ /\ lastCall.op = "assign_rooms_to_booking"
        /\ \E t \in BagToSet(released) : t[1] = b
     \/ /\ lastCall.op = "cancel_booking"
        /\ bookings[b].room_ids # <<>>

C34_OverlappingPayments ==
  \A b \in 1..Len(bookings) :
    ( /\ lastCall.pc = "returned" /\ lastCall.op = "add_payment"
      /\ lastCall.result = "ok" /\ lastCall.arg.booking_id = b
      /\ Len(bookings[b].payments) = Len(lastCall.bk.payments) + 2
      /\ bookings[b].total_amount = lastCall.bk.total_amount )
    => /\ SumOf(bookings[b].payments)
            = SumOf(lastCall.bk.payments) + lastCall.arg.amount
                + bookings[b].payments[Len(bookings[b].payments) - 1]
       /\ bookings[b].payment_status
            = PaymentStatusOf(SumOf(bookings[b].payments), bookings[b].total_amount)


\* the inventory the store st starts with
StoredInventory(st) ==
  [k \in Keys |-> IF k[2] = "deluxe" /\ k[3] \in SeedDates THEN st.row ELSE NoRow]

\* the only two requests so far were a create_booking that stored booking b and,
\* after it, a cancel_booking of b that ran alone and has just returned
CreatedThenCancelled(b) ==
  /\ started = 2
  /\ Returned("cancel_booking") /\ lastCall.alone
  /\ lastCall.arg.booking_id = b
  /\ b = Len(bookings) /\ b = Len(lastCall.pre.bookings)
  /\ bookings[b].booking_number >= 0

\* C35: a create_booking that succeeded, followed with nothing in between by the
\* cancel_booking of the booking it stored, leaves every inventory row with the
\* values it had before the create_booking (and the booking CANCELLED)
C35_CreateCancelRoundTrip ==
  \A b \in 1..Len(bookings) :
    CreatedThenCancelled(b) =>
      /\ lastCall.result = "ok"
      /\ bookings[b].booking_status = "cancelled"
      /\ \A st \in Stores :
           st.bookings = SubSeq(bookings, 1, b - 1) =>
             roomInventory = StoredInventory(st)

\* a booking that reserved a room for every seeded night was created and then
\* cancelled, and the row is back from locked to available
C35_Witness ==
  \E b \in 1..Len(bookings) :
    /\ CreatedThenCancelled(b)
    /\ lastCall.result = "ok"
    /\ \E k \in Keys :
         /\ Need(bookings[b], bookings[b].room_type_bookings, k) = 1
         /\ lastCall.pre.roomInventory[k].locked_rooms = 1
         /\ roomInventory[k].locked_rooms = 0
         /\ roomInventory[k].available_rooms = 1


\* a request whose stay has no night or one of whose groups asks for no room
Invalid(in) ==
  \/ in.check_out_date <= in.check_in_date
  \/ \E g \in 1..Len(in.room_type_bookings) :
       in.room_type_bookings[g].number_of_rooms <= 0

\* C36: a create_booking whose check_out_date is not later than its
\* check_in_date, or one of whose groups has a number_of_rooms that is not
\* positive, fails with an error, stores no booking and (run alone) changes no
\* inventory row; so every CONFIRMED booking has a night and a positive
\* number_of_rooms in every group
C36_InvalidRejected ==
  /\ (Returned("create_booking") /\ Invalid(lastCall.arg)) =>
       /\ lastCall.result = "error"
       /\ lastCall.alone => Snapshot = lastCall.pre
  /\ \A b \in 1..Len(bookings) :
       bookings[b].booking_status = "confirmed" => ~Invalid(bookings[b])


\* C37: a CHECKED_IN booking has, for each of its room-type groups, exactly
\* number_of_rooms rooms of that type in room_ids
C37_CheckedInAssigned ==
  \A b \in 1..Len(bookings) :
    bookings[b].booking_status = "checked_in" =>
      \A g \in 1..Len(bookings[b].room_type_bookings) :
        LET grp == bookings[b].room_type_bookings[g]
        IN  Cardinality({x \in 1..Len(bookings[b].room_ids) :
                           rooms[bookings[b].room_ids[x]].room_type = grp.room_type})
              = grp.number_of_rooms


\* C38: cancel_booking run alone on a CONFIRMED or CHECKED_IN booking returns
\* true and leaves the booking CANCELLED, whatever the inventory counters are;
\* checkout_booking run alone on a CHECKED_IN booking returns true and leaves it
\* CHECKED_OUT
C38_AloneSucceeds ==
  /\ (AloneOn("cancel_booking", "confirmed") \/ AloneOn("cancel_booking", "checked_in"))
       => /\ lastCall.result = "ok"
          /\ bookings[lastCall.arg.booking_id].booking_status = "cancelled"
  /\ AloneOn("checkout_booking", "checked_in")
       => /\ lastCall.result = "ok"
          /\ bookings[lastCall.arg.booking_id].booking_status = "checked_out"

\* a CHECKED_IN booking was cancelled although booked_rooms of one of its nights
\* did not cover it: the call returned true and the counter went below zero
C38_Witness ==
  /\ AloneOn("cancel_booking", "checked_in")
  /\ lastCall.result = "ok"
  /\ bookings[lastCall.arg.booking_id].booking_status = "cancelled"
  /\ \E k \in Keys :
       /\ lastCall.pre.roomInventory[k].exists
       /\ lastCall.pre.roomInventory[k].booked_rooms = 0
       /\ roomInventory[k].booked_rooms < 0


\* C39: a delete_room (run alone) that reports an error leaves the room's
\* is_active and status and the hotel's room_count as they were; a delete_room
\* of a room that is already deactivated takes nothing from room_count or from
\* the inventory
C39_DeleteOnce ==
  (Returned("delete_room") /\ lastCall.alone) =>
    LET id == lastCall.arg.id
        was == lastCall.pre
    IN  /\ lastCall.result = "error" =>
             /\ rooms[id] = was.rooms[id]
             /\ hotels = was.hotels
        /\ (was.rooms[id].exists /\ ~was.rooms[id].is_active) =>
             /\ hotels = was.hotels
             /\ roomInventory = was.roomInventory

====
